---- MODULE Spec2Model ----
(***************************************************************************)
(* FuncStory (src/index.ts): FunctionTracer builds a call tree from an     *)
(* entry point by depth-first traversal, resolving every call expression   *)
(* of the visited definition against the project's files, imports and      *)
(* classes.  The project (the ts-morph syntax trees) is the input; it is   *)
(* represented by the facts the tracer queries: the functions, variables,  *)
(* classes and imports of each file, and the call expressions of each      *)
(* definition.                                                             *)
(*                                                                         *)
(* Names are sequences of identifiers: the text "this.add" is              *)
(* <<"this", "add">>, so that split('.'), includes('.') and                *)
(* startsWith('this.') are computed as the code computes them.  File paths *)
(* are sequences of characters, so that startsWith is the prefix test.     *)
(***************************************************************************)
EXTENDS Integers, Sequences, FiniteSets, TLC

(***************************************************************************)
(* Bounds of the explored inputs.                                          *)
(***************************************************************************)
\* maximal number of call expressions in a generated body
MaxBody == 2
\* largest --max-depth value supplied in the options
MaxDepthArg == 3
\* the longest of the short command lines
MaxArgs == 3

(***************************************************************************)
(* Values standing for JavaScript's undefined / null.                      *)
(***************************************************************************)
Undefined == "undefined"
NoFile == "nofile"
NoText == ""
NoDef == [kind |-> "none"]
\* the RangeError a non-terminating recursion of a lookup ends in
Overflow == [kind |-> "overflow"]

(***************************************************************************)
(* Call expressions.  expression is an Identifier (kind "id"), a           *)
(* PropertyAccessExpression (kind "prop", obj the text of the object       *)
(* expression split at the dots) or anything else (kind "other": new       *)
(* Foo()(), arr[0](), super()).  A body item of kind "nested" is a named   *)
(* function declared inside the definition, with its own call expressions. *)
(***************************************************************************)
Id(n) == [kind |-> "id", obj |-> <<>>, prop |-> n, inner |-> <<>>]
Prop(o, p) == [kind |-> "prop", obj |-> o, prop |-> p, inner |-> <<>>]
OtherCall == [kind |-> "other", obj |-> <<>>, prop |-> "", inner |-> <<>>]
Nested(calls) == [kind |-> "nested", obj |-> <<>>, prop |-> "", inner |-> calls]

(***************************************************************************)
(* The project under analysis: what ts-morph answers about each file.      *)
(* A definition is a function declaration ("function"), a variable         *)
(* initialised with an arrow function or function expression ("varfn") or  *)
(* a method declaration ("method") with its start line, its JSDoc (skip    *)
(* tag, description, remarks) and the items of its body in source order.   *)
(***************************************************************************)
Fn(f, n, l, sk, d, r, b) ==
  [kind |-> "function", file |-> f, cls |-> "", name |-> n, line |-> l,
   skip |-> sk, descr |-> d, remarks |-> r, body |-> b]
VarFn(f, n, l, b) ==
  [kind |-> "varfn", file |-> f, cls |-> "", name |-> n, line |-> l,
   skip |-> FALSE, descr |-> NoText, remarks |-> NoText, body |-> b]
Mth(f, c, n, l, sk, d, r, b) ==
  [kind |-> "method", file |-> f, cls |-> c, name |-> n, line |-> l,
   skip |-> sk, descr |-> d, remarks |-> r, body |-> b]

NoType == [file |-> NoFile, cls |-> ""]
Var(n, l, t) == [name |-> n, line |-> l, type |-> t]
Import(ns, m) == [names |-> ns, module |-> m]

\* __tests__/fixtures/simple-functions.ts
SimpleDefs ==
  { Fn("simple", "simpleFunction", 3, FALSE, NoText, NoText, <<>>),
    Fn("simple", "callingFunction", 7, FALSE, NoText, NoText, <<Id("simpleFunction")>>),
    Fn("simple", "addNumbers", 17, FALSE, "adds", NoText, <<>>),
    Fn("simple", "skippedFunction", 25, TRUE, "skipped", NoText, <<>>),
    Fn("simple", "functionThatCallsSkipped", 29, FALSE, NoText, NoText,
       <<Id("skippedFunction")>>),
    Fn("simple", "factorial", 39, FALSE, "factorial", "recursive",
       <<Id("factorial")>>) }

\* __tests__/fixtures/class-methods.ts
ClassDefs ==
  { Mth("classes", "Calculator", "add", 10, FALSE, "adds", NoText, <<>>),
    Mth("classes", "Calculator", "getValue", 17, FALSE, "gets", NoText, <<>>),
    Mth("classes", "Calculator", "complexCalculation", 25, FALSE, "complex", "nested",
        << Prop(<<"this">>, "add"), Prop(<<"this">>, "add"),
           Prop(<<"this">>, "getValue") >>) }

\* __tests__/fixtures/calls-skipped-file.ts
CallsDefs ==
  { Fn("calls", "callsSkippedFile", 6, FALSE, "calls", NoText,
       << Id("skippedFileFunction"), Prop(<<"instance">>, "skippedMethod") >>) }

\* the file the fixture imports from: marked @funcstory-skip-file
SkippedDefs ==
  { Fn("skipped", "skippedFileFunction", 6, FALSE, NoText, NoText,
       << Id("skippedHelper"), Id("skippedFileFunction") >>),
    Fn("skipped", "skippedHelper", 10, FALSE, NoText, NoText, <<>>),
    Mth("skipped", "SkippedFileClass", "skippedMethod", 15, FALSE, NoText, NoText, <<>>) }

\* a file outside the scope root, and a file of a sibling directory whose
\* path begins with the characters of the scope root
LibDefs ==
  { Fn("lib", "ext", 1, FALSE, NoText, NoText, <<Id("extInner")>>),
    Fn("lib", "extInner", 5, FALSE, NoText, NoText, <<>>),
    Fn("old", "oldHelper", 1, FALSE, NoText, NoText, <<>>) }

\* a file exercising every form of call expression the tracer distinguishes
GraphDefs ==
  { Mth("graph", "Rec", "run", 3, FALSE, "runs", NoText, <<Prop(<<"this">>, "run")>>),
    Mth("graph", "Rec", "ping", 6, FALSE, NoText, NoText, <<Prop(<<"this">>, "pong")>>),
    Mth("graph", "Rec", "pong", 9, FALSE, NoText, NoText, <<Prop(<<"this">>, "ping")>>),
    Mth("graph", "Rec", "stat", 12, FALSE, NoText, NoText, <<Prop(<<"Rec">>, "stat")>>),
    Mth("graph", "Rec", "deep", 15, FALSE, NoText, NoText,
        << Prop(<<"this", "helper">>, "go"), Prop(<<"this">>, "missing"),
           Prop(<<"this">>, "run") >>),
    Mth("graph", "Rec", "hidden", 18, TRUE, NoText, NoText, <<Prop(<<"this">>, "run")>>),
    Mth("graph", "Rec", "callsHidden", 21, FALSE, NoText, NoText,
        << Prop(<<"this">>, "hidden"), Prop(<<"this">>, "ping") >>),
    Fn("graph", "top", 30, FALSE, "top", "branches", <<Id("mid1"), Id("mid2")>>),
    Fn("graph", "mid1", 33, FALSE, NoText, "first", <<Id("shared")>>),
    Fn("graph", "mid2", 36, FALSE, NoText, NoText, <<Id("shared"), Id("top")>>),
    Fn("graph", "shared", 39, FALSE, NoText, NoText, <<Id("arrow")>>),
    VarFn("graph", "arrow", 42, <<Id("simpleFunction")>>),
    Fn("graph", "usesHandler", 45, FALSE, NoText, NoText, <<Id("handler")>>),
    Fn("graph", "callsViaVariable", 48, FALSE, NoText, NoText,
       <<Prop(<<"inst">>, "skippedMethod"), Id("skippedFileFunction")>>),
    Fn("graph", "usesCalc", 51, FALSE, NoText, NoText, <<Prop(<<"calc">>, "add")>>),
    Fn("graph", "callsStatic", 54, FALSE, NoText, NoText,
       << Prop(<<"Calculator">>, "complexCalculation"), Prop(<<"Calculator">>, "nothing"),
          Prop(<<"Rec">>, "nothing"), Prop(<<"SkippedFileClass">>, "skippedMethod") >>),
    Fn("graph", "callsOutside", 57, FALSE, NoText, NoText,
       << Id("ext"), Id("oldHelper"), Id("skippedFileFunction"),
          Prop(<<"console">>, "log"), OtherCall, Id("undeclared") >>),
    Fn("graph", "outer", 60, FALSE, NoText, NoText,
       << Nested(<<Id("simpleFunction")>>), Id("inner"), Id("skippedFunction"),
          Id("callsOutside") >>),
    Fn("graph", "many", 63, FALSE, NoText, NoText,
       [k \in 1..10 |-> Id("simpleFunction")]),
    Fn("graph", "callsMany", 66, FALSE, NoText, NoText,
       <<Id("many"), Id("simpleFunction")>>),
    Mth("graph", "Rec", "begin", 70, FALSE, NoText, NoText, <<Prop(<<"this">>, "step")>>),
    Mth("graph", "Rec", "step", 73, FALSE, NoText, NoText, <<Prop(<<"Other">>, "go")>>),
    Mth("graph", "Other", "go", 76, FALSE, NoText, NoText, <<Prop(<<"this">>, "step")>>),
    Mth("graph", "Other", "step", 79, FALSE, NoText, NoText, <<>>) }

\* two files importing the same name from each other, neither declaring it
CycleDefs ==
  { Fn("cycA", "callsCyclic", 3, FALSE, NoText, NoText, <<Id("simpleFunction"), Id("x")>>),
    Fn("cycB", "callsCyclicMethod", 3, FALSE, NoText, NoText, <<Prop(<<"X">>, "m")>>) }

FileIds == {"simple", "classes", "calls", "skipped", "lib", "old", "graph", "cycA", "cycB",
            "chain", "gen"}

Files ==
  [f \in FileIds |->
    CASE f = "simple" ->
           [path |-> <<"/", "s", "/", "a">>, skipFile |-> FALSE, imports |-> <<>>,
            vars |-> {}, classes |-> {}]
      [] f = "classes" ->
           [path |-> <<"/", "s", "/", "b">>, skipFile |-> FALSE, imports |-> <<>>,
            vars |-> {}, classes |-> {"Calculator"}]
      [] f = "calls" ->
           [path |-> <<"/", "s", "/", "c">>, skipFile |-> FALSE,
            imports |-> <<Import({"skippedFileFunction", "SkippedFileClass"}, "skipped")>>,
            vars |-> {}, classes |-> {}]
      [] f = "skipped" ->
           [path |-> <<"/", "s", "/", "d">>, skipFile |-> TRUE, imports |-> <<>>,
            vars |-> {}, classes |-> {"SkippedFileClass"}]
      [] f = "lib" ->
           [path |-> <<"/", "o", "/", "f">>, skipFile |-> FALSE, imports |-> <<>>,
            vars |-> {}, classes |-> {}]
      [] f = "old" ->
           [path |-> <<"/", "s", "2", "/", "e">>, skipFile |-> FALSE, imports |-> <<>>,
            vars |-> {}, classes |-> {}]
      [] f = "graph" ->
           [path |-> <<"/", "s", "/", "m">>, skipFile |-> FALSE,
            imports |-> << Import({"fs"}, NoFile),
                           Import({"ext"}, "lib"), Import({"oldHelper"}, "old"),
                           Import({"skippedFileFunction", "SkippedFileClass"}, "skipped"),
                           Import({"simpleFunction", "skippedFunction"}, "simple"),
                           Import({"Calculator"}, "classes") >>,
            vars |-> { Var("handler", 44, NoType),
                       Var("inst", 47, [file |-> "skipped", cls |-> "SkippedFileClass"]),
                       Var("calc", 50, [file |-> "classes", cls |-> "Calculator"]) },
            classes |-> {"Rec", "Other"}]
      [] f = "cycA" ->
           [path |-> <<"/", "s", "/", "i">>, skipFile |-> FALSE,
            imports |-> <<Import({"simpleFunction"}, "simple"), Import({"x", "X"}, "cycB")>>,
            vars |-> {}, classes |-> {}]
      [] f = "cycB" ->
           [path |-> <<"/", "s", "/", "j">>, skipFile |-> FALSE,
            imports |-> <<Import({"x", "X"}, "cycA")>>,
            vars |-> {}, classes |-> {}]
      [] f = "chain" ->
           [path |-> <<"/", "s", "/", "h">>, skipFile |-> FALSE, imports |-> <<>>,
            vars |-> {}, classes |-> {}]
      [] f = "gen" ->
           [path |-> <<"/", "s", "/", "g">>, skipFile |-> FALSE, imports |-> <<>>,
            vars |-> {}, classes |-> {}] ]

\* a chain c0 -> c1 -> ... longer than the default depth limit
ChainNames == <<"c0", "c1", "c2", "c3", "c4", "c5", "c6", "c7", "c8", "c9", "c10", "c11">>
ChainDefs ==
  { Fn("chain", ChainNames[i], 3 * i, FALSE, NoText, NoText,
       IF i < Len(ChainNames) THEN <<Id(ChainNames[i + 1])>> ELSE <<>>)
    : i \in 1..Len(ChainNames) }

\* the functions of the generated file; their bodies are chosen by Init
GenNames == <<"g1", "g2">>
GenNameSet == {GenNames[i] : i \in 1..Len(GenNames)}
GenDefs ==
  { Fn("gen", GenNames[i], 3 * i, FALSE, NoText, NoText, <<>>) : i \in 1..Len(GenNames) }

Defs ==
  SimpleDefs \cup ClassDefs \cup CallsDefs \cup SkippedDefs \cup LibDefs \cup GraphDefs
    \cup CycleDefs \cup ChainDefs \cup GenDefs

\* sequences over S of length at most n
SeqsUpTo(S, n) == UNION {[1..k -> S] : k \in 0..n}
GenBodies == SeqsUpTo({Id(g) : g \in GenNameSet}, MaxBody)

(***************************************************************************)
(* State.                                                                  *)
(***************************************************************************)
VARIABLES
  genBody,         \* input: the bodies of the generated functions
  argv,            \* input: process.argv.slice(2)
  promptFile,      \* input: PROMPT.md in the working directory
  exitCode,        \* the status main() returns or the process exits with, once it has
  options,         \* the TraceOptions parseArgs returns
  scopeDirectory,  \* FunctionTracer.scopeDirectory
  maxDepth,        \* FunctionTracer.maxDepth
  includeStory,    \* FunctionTracer.includeStory
  recursionStack,  \* FunctionTracer.recursionStack
  stack,           \* the active invocations of traceFunction, outermost first
  pc,              \* where main() is: "main", "ready", "tracing", "returned",
                   \* "thrown", "printed", "failed" or "exited"
  result,          \* the CallTrace returned by trace()
  error,           \* the exception trace() threw
  report           \* what main() prints: the entries of formatter.format(trace)

vars == <<genBody, argv, promptFile, exitCode, options, scopeDirectory, maxDepth, includeStory,
          recursionStack, stack, pc, result, error, report>>

NoTrace == [name |-> <<>>]
NoError == "none"

(***************************************************************************)
(* ts-morph queries.                                                       *)
(***************************************************************************)
Pick(S) == CHOOSE x \in S : TRUE

\* Pick({ Body(x) : x \in {e} }) is Body(e) with e evaluated once

\* sourceFile.getFunction(name)
GetFunction(f, n) ==
  LET S == {d \in Defs : d.kind = "function" /\ d.file = f /\ d.name = n}
  IN  IF S = {} THEN NoDef ELSE Pick(S)

\* the initializer of sourceFile.getVariableDeclaration(name) when it is an
\* arrow function or a function expression
GetVariableFunction(f, n) ==
  LET S == {d \in Defs : d.kind = "varfn" /\ d.file = f /\ d.name = n}
  IN  IF S = {} THEN NoDef ELSE Pick(S)

\* sourceFile.getVariableDeclaration(name) is defined
HasVariableDeclaration(f, n) ==
  \/ GetVariableFunction(f, n) # NoDef
  \/ \E v \in Files[f].vars : v.name = n

GetVariable(f, n) == Pick({v \in Files[f].vars : v.name = n})

\* sourceFile.getClass(name) is defined
HasClass(f, c) == c \in Files[f].classes

\* classDecl.getMethod(name)
GetMethod(f, c, m) ==
  LET S == {d \in Defs : d.kind = "method" /\ d.file = f /\ d.cls = c /\ d.name = m}
  IN  IF S = {} THEN NoDef ELSE Pick(S)

\* node.forEachDescendant over the body: every call expression, those inside
\* nested function bodies included, in source order
RECURSIVE Flatten(_)
Flatten(items) ==
  IF items = <<>> THEN <<>>
  ELSE LET h == Head(items)
       IN  (IF h.kind = "nested" THEN h.inner ELSE <<h>>) \o Flatten(Tail(items))

BodyOf(d) == IF d.file = "gen" THEN genBody[d.name] ELSE d.body

GetCallExpressions(node) == Flatten(BodyOf(node))

(***************************************************************************)
(* FunctionTracer: scope, skip marks, locations, JSDoc.                    *)
(***************************************************************************)
IsPrefix(p, q) == Len(p) <= Len(q) /\ SubSeq(q, 1, Len(p)) = p

\* the working directory of the process
Cwd == <<"/">>

\* path.resolve(p): a relative path is joined to the working directory, a
\* trailing separator is removed
PathResolve(p) ==
  IF p = <<>> THEN Cwd
  ELSE Pick({ IF Len(q) > 1 /\ q[Len(q)] = "/" THEN SubSeq(q, 1, Len(q) - 1) ELSE q
      : q \in {IF p[1] # "/" THEN Cwd \o p ELSE p} })

\* isInScope(node): filePath.startsWith(this.scopeDirectory)
IsInScope(node) == IsPrefix(scopeDirectory, Files[node.file].path)

\* mutant: the @funcstory-skip-file tag is never seen
ShouldSkipFileNever(f) == FALSE

\* shouldSkipFile(sourceFile)
ShouldSkipFile(f) == Files[f].skipFile

\* mutant: the @funcstory-skip tag is never seen
ShouldSkipFunctionNever(node) == FALSE

\* shouldSkipFunction(node): nodes without JSDoc support answer false
ShouldSkipFunction(node) == node.kind \in {"function", "method"} /\ node.skip

GetFunctionLocation(node) ==
  [fileName |-> Files[node.file].path, lineNumber |-> node.line]

\* mutant: the JSDoc is read in oneline mode too
GetJSDocInfoAlways(node) ==
  IF node.kind \in {"function", "method"}
    THEN [description |-> node.descr, remarks |-> node.remarks]
    ELSE [description |-> NoText, remarks |-> NoText]

GetJSDocInfo(node) ==
  IF includeStory /\ node.kind \in {"function", "method"}
    THEN [description |-> node.descr, remarks |-> node.remarks]
    ELSE [description |-> NoText, remarks |-> NoText]

(***************************************************************************)
(* Resolution.  findFunctionDefinition and findMethodDefinition follow the *)
(* first matching import whose module resolves to a file and return what   *)
(* the search there returns.  The search depends on the file and the name  *)
(* only, so a search that comes back to a file it has already visited      *)
(* recurses without end and the engine raises RangeError: Overflow.        *)
(***************************************************************************)
\* the module of the first import declaration of f that binds n and resolves
FirstImport(f, n) ==
  LET imps == Files[f].imports
      S == {i \in 1..Len(imps) : n \in imps[i].names /\ imps[i].module # NoFile}
  IN  IF S = {} THEN NoFile ELSE imps[CHOOSE i \in S : \A j \in S : i <= j].module

RECURSIVE FindFunctionDefinitionFrom(_, _, _)
FindFunctionDefinitionFrom(f, n, visited) ==
  IF f \in visited THEN Overflow
  ELSE IF ShouldSkipFile(f) THEN NoDef
  ELSE IF GetFunction(f, n) # NoDef THEN GetFunction(f, n)
  ELSE IF GetVariableFunction(f, n) # NoDef THEN GetVariableFunction(f, n)
  ELSE IF FirstImport(f, n) # NoFile
         THEN FindFunctionDefinitionFrom(FirstImport(f, n), n, visited \cup {f})
  ELSE NoDef

FindFunctionDefinition(f, n) == FindFunctionDefinitionFrom(f, n, {})

\* className is the text of the object expression, split at the dots; only a
\* single identifier can name a class or an import
RECURSIVE FindMethodDefinitionFrom(_, _, _, _)
FindMethodDefinitionFrom(f, className, m, visited) ==
  IF f \in visited THEN Overflow
  ELSE IF ShouldSkipFile(f) THEN NoDef
  ELSE IF Len(className) # 1 THEN NoDef
  ELSE IF HasClass(f, className[1]) THEN GetMethod(f, className[1], m)
  ELSE IF FirstImport(f, className[1]) # NoFile
         THEN FindMethodDefinitionFrom(FirstImport(f, className[1]), className, m,
                                       visited \cup {f})
  ELSE NoDef

FindMethodDefinition(f, className, m) == FindMethodDefinitionFrom(f, className, m, {})

\* the call expression lies in the body of definition `from`: the nearest
\* enclosing class declaration is the class of that method, if any
FindMethodInCurrentClass(from, m) ==
  IF from.cls # "" THEN GetMethod(from.file, from.cls, m) ELSE NoDef

ResolveObjectType(v, m) ==
  IF v.type # NoType THEN GetMethod(v.type.file, v.type.cls, m) ELSE NoDef

NullCall == [kind |-> "null", name |-> <<>>, target |-> NoDef, isExternal |-> FALSE]
ThrownCall == [kind |-> "overflow", name |-> <<>>, target |-> NoDef, isExternal |-> FALSE]
CallInfo(n, t) ==
  Pick({
        IF target = Overflow THEN ThrownCall
        ELSE [kind |-> "call", name |-> n, target |-> target,
              isExternal |-> (target = NoDef \/ ~IsInScope(target))]
      : target \in {t} })

\* resolveCall(callExpr) for a call expression in the body of `from`
ResolveCall(site, from) ==
  CASE site.kind = "id" ->
         CallInfo(<<site.prop>>, FindFunctionDefinition(from.file, site.prop))
    [] site.kind = "prop" ->
         CallInfo(site.obj \o <<site.prop>>,
                  IF site.obj = <<"this">>
                    THEN FindMethodInCurrentClass(from, site.prop)
                    ELSE FindMethodDefinition(from.file, site.obj, site.prop))
    [] OTHER -> NullCall

\* isWithinScope(callExpr, functionName) for a call expression in the body of
\* `from`: "yes", "no" or "overflow"
YesNo(b) == IF b THEN "yes" ELSE "no"

SimpleCallWithinScope(from, n) ==
  IF GetFunction(from.file, n) # NoDef /\ IsInScope(from) THEN "yes"
  ELSE IF HasVariableDeclaration(from.file, n) /\ IsInScope(from) THEN "yes"
  ELSE Pick({ IF target = Overflow THEN "overflow"
                           ELSE YesNo(target # NoDef /\ IsInScope(target))
      : target \in {FindFunctionDefinition(from.file, n)} })

VariableCallWithinScope(from, objectName, methodName) ==
  IF HasVariableDeclaration(from.file, objectName) /\ IsInScope(from)
       /\ GetVariableFunction(from.file, objectName) = NoDef
    THEN Pick({ YesNo(objectType # NoDef /\ IsInScope(objectType))
      : objectType \in {ResolveObjectType(GetVariable(from.file, objectName), methodName)} })
    ELSE "no"

MethodCallWithinScope(from, objectName, methodName) ==
  IF HasClass(from.file, objectName) /\ IsInScope(from)
    THEN YesNo(GetMethod(from.file, objectName, methodName) # NoDef)
    ELSE Pick({
               IF target = Overflow THEN "overflow"
               ELSE IF target # NoDef /\ IsInScope(target) THEN "yes"
               ELSE VariableCallWithinScope(from, objectName, methodName)
      : target \in {FindMethodDefinition(from.file, <<objectName>>, methodName)} })

IsWithinScope(from, name) ==
  IF Len(name) > 1 /\ name[1] = "this" THEN YesNo(IsInScope(from))
  ELSE IF Len(name) = 1 THEN SimpleCallWithinScope(from, name[1])
  ELSE MethodCallWithinScope(from, name[1], name[Len(name)])

(***************************************************************************)
(* Traversal.                                                              *)
(***************************************************************************)
\* the default of the constructor: options.maxDepth || 10
DefaultMaxDepth == 10

NoMaxDepth == [kind |-> "undefined", value |-> 0]
NaNDepth == [kind |-> "nan", value |-> 0]
Num(n) == [kind |-> "num", value |-> n]

\* options.maxDepth || 10: undefined, NaN and 0 are falsy
MaxDepthOrDefault(m) ==
  IF m.kind # "num" \/ m.value = 0 THEN DefaultMaxDepth ELSE m.value

\* findEntryPoint(sourceFile, entryPoint)
FindEntryPoint(f, ep) ==
  IF Len(ep) > 1
    THEN IF HasClass(f, ep[1]) THEN GetMethod(f, ep[1], ep[2]) ELSE NoDef
  ELSE IF GetFunction(f, ep[1]) # NoDef THEN GetFunction(f, ep[1])
  ELSE IF GetVariableFunction(f, ep[1]) # NoDef THEN GetVariableFunction(f, ep[1])
  ELSE IF HasVariableDeclaration(f, ep[1])
    THEN LET v == GetVariable(f, ep[1])
         IN  [kind |-> "var", file |-> f, cls |-> "", name |-> v.name, line |-> v.line,
              skip |-> FALSE, descr |-> NoText, remarks |-> NoText, body |-> <<>>]
  ELSE LET S == {d \in Defs : d.kind = "method" /\ d.file = f /\ d.name = ep[1]}
       IN  IF S = {} THEN NoDef
           ELSE CHOOSE d \in S : \A e \in S : d.line <= e.line

\* mutant: no name is ever found on the recursion stack
InRecursionStackNever(functionName) == FALSE

\* this.recursionStack.has(functionName)
InRecursionStack(functionName) == functionName \in recursionStack

\* the CallTrace traceFunction creates on entry
NewTrace(node, functionName, currentPath) ==
  [name |-> functionName,
   isRecursive |-> InRecursionStack(functionName),
   isExternal |-> FALSE,
   children |-> <<>>,
   functionPath |-> Append(currentPath, functionName),
   fileName |-> GetFunctionLocation(node).fileName,
   lineNumber |-> GetFunctionLocation(node).lineNumber,
   isSkipped |-> ShouldSkipFunction(node),
   jsDocDescription |-> GetJSDocInfo(node).description,
   jsDocRemarks |-> GetJSDocInfo(node).remarks]

\* mutant: a flagged recursion no longer stops the expansion
StopsExpansionIgnoringRecursion(trace, depth) ==
  trace.isSkipped \/ depth >= maxDepth

\* if (isSkipped || isRecursive || depth >= this.maxDepth) return trace
StopsExpansion(trace, depth) ==
  trace.isSkipped \/ trace.isRecursive \/ depth >= maxDepth

\* the CallTrace traceCall returns for an external or unresolved call;
\* isSkipped, jsDocDescription and jsDocRemarks are left undefined (falsy)
ExternalTrace(callInfo, currentPath) ==
  [name |-> callInfo.name,
   isRecursive |-> FALSE,
   isExternal |-> TRUE,
   children |-> <<>>,
   functionPath |-> Append(currentPath, callInfo.name),
   fileName |-> IF callInfo.target # NoDef
                  THEN GetFunctionLocation(callInfo.target).fileName ELSE <<"external">>,
   lineNumber |-> IF callInfo.target # NoDef
                    THEN GetFunctionLocation(callInfo.target).lineNumber ELSE 0,
   isSkipped |-> FALSE,
   jsDocDescription |-> NoText,
   jsDocRemarks |-> NoText]

\* mutant: a skip-tagged target is traced like any other
OmitsCalleeNever(callInfo) == FALSE

\* traceCall: the target is left out of the trace
OmitsCallee(callInfo) == ShouldSkipFunction(callInfo.target)

\* mutant: the name does not enter the recursion stack
StackAddNothing(functionName) == recursionStack

\* this.recursionStack.add(functionName)
StackAdd(functionName) == recursionStack \cup {functionName}

\* mutant: the name stays on the recursion stack when the function exits
StackDeleteNothing(functionName) == recursionStack

\* this.recursionStack.delete(functionName)
StackDelete(functionName) == recursionStack \ {functionName}

\* an invocation of traceFunction that expands its node
Frame(node, trace, depth) ==
  [node |-> node, trace |-> trace, depth |-> depth,
   calls |-> GetCallExpressions(node), next |-> 1]

Top == stack[Len(stack)]
Site == Top.calls[Top.next]
AtCall == pc = "tracing" /\ stack # <<>> /\ Top.next <= Len(Top.calls)

\* mutant: traceCall hands a skip-tagged target to traceFunction
TraceCallUnchecked(info) ==
  IF info.isExternal \/ info.target = NoDef
    THEN [kind |-> "external", info |-> info,
          child |-> ExternalTrace(info, Top.trace.functionPath)]
  ELSE Pick({ [kind |-> IF StopsExpansion(t, Top.depth + 1) THEN "leaf" ELSE "expand",
                       info |-> info, child |-> t]
      : t \in {NewTrace(info.target, info.name, Top.trace.functionPath)} })

\* traceCall(callInfo, depth + 1, newPath) for an admitted call of the top
\* invocation: "external", "omit" (null is returned), "leaf" (traceFunction
\* returns the child at once) or "expand", with the child created
TraceCall(info) ==
  IF info.isExternal \/ info.target = NoDef
    THEN [kind |-> "external", info |-> info,
          child |-> ExternalTrace(info, Top.trace.functionPath)]
  ELSE IF OmitsCallee(info) THEN [kind |-> "omit", info |-> info, child |-> NoTrace]
  ELSE Pick({ [kind |-> IF StopsExpansion(t, Top.depth + 1) THEN "leaf" ELSE "expand",
                       info |-> info, child |-> t]
      : t \in {NewTrace(info.target, info.name, Top.trace.functionPath)} })

\* mutant: every call that resolveCall reads is traced, admitted or not
AdmitAll(from, info) == TraceCall(info)

\* the loop body of traceFunction on call expression `site` of definition
\* `from`: resolveCall, isWithinScope, traceCall
Admit(from, info) ==
  Pick({
        IF admitted = "overflow" THEN [kind |-> "throw", info |-> info, child |-> NoTrace]
        ELSE IF admitted = "no" THEN [kind |-> "drop", info |-> info, child |-> NoTrace]
        ELSE TraceCall(info)
      : admitted \in {IsWithinScope(from, info.name)} })

LoopBody(site, from) ==
  Pick({
        IF info.kind = "overflow" THEN [kind |-> "throw", info |-> info, child |-> NoTrace]
        ELSE IF info.kind = "null" THEN [kind |-> "drop", info |-> info, child |-> NoTrace]
        ELSE Admit(from, info)
      : info \in {ResolveCall(site, from)} })

Outcome == LoopBody(Site, Top.node)

(***************************************************************************)
(* TraceFormatter.  The report is the sequence of the entries formatTrace  *)
(* writes, one per node in depth-first order: the numbering prefix, the    *)
(* name and its style, the location, the marker and the narrative lines.   *)
(***************************************************************************)
\* path.relative(from, to) for a path `to` below the directory `from`
PathRelative(from, to) ==
  IF from = <<"/">> THEN Tail(to) ELSE SubSeq(to, Len(from) + 2, Len(to))

DigitChars == <<"0", "1", "2", "3", "4", "5", "6", "7", "8", "9">>

\* n.toString() for n >= 0, as a sequence of characters
RECURSIVE NumberToString(_)
NumberToString(n) ==
  IF n < 10 THEN <<DigitChars[n + 1]>>
  ELSE Append(NumberToString(n \div 10), DigitChars[(n % 10) + 1])

\* mutant: the index is not padded
PadStartNothing(str, width) == str

\* str.padStart(width, '0')
RECURSIVE PadStart(_, _)
PadStart(str, width) ==
  IF Len(str) >= width THEN str ELSE PadStart(<<"0">> \o str, width)

\* mutant: the prefix of the parent is left out at every level
GetChildPrefixFlat(parentPrefix, childIndex, totalSiblings) ==
  Append(NumberToString(childIndex), ".")

\* getChildPrefix(parentPrefix, childIndex, totalSiblings)
GetChildPrefix(parentPrefix, childIndex, totalSiblings) ==
  LET padding == Len(NumberToString(totalSiblings))
      paddedIndex == PadStart(NumberToString(childIndex), padding)
      cleanPrefix == IF parentPrefix[Len(parentPrefix)] = "."
                       THEN SubSeq(parentPrefix, 1, Len(parentPrefix) - 1)
                       ELSE parentPrefix
  IN  IF parentPrefix = <<>> THEN Append(paddedIndex, ".")
      ELSE cleanPrefix \o <<".">> \o paddedIndex

\* mutant: only the flag of the node itself is looked at
IdentifyRecursiveFunctionsHere(trace) == IF trace.isRecursive THEN {trace.name} ELSE {}

\* identifyRecursiveFunctions(trace): the names flagged anywhere in the tree
RECURSIVE IdentifyRecursiveFunctions(_)
IdentifyRecursiveFunctions(trace) ==
  (IF trace.isRecursive THEN {trace.name} ELSE {})
    \cup UNION {IdentifyRecursiveFunctions(trace.children[i]) : i \in 1..Len(trace.children)}

\* mutant: the RECURSION marker is chosen before the skip marker
MarkerRecursionFirst(trace) ==
  IF trace.isRecursive THEN "RECURSION"
  ELSE IF trace.isSkipped THEN "skipped"
  ELSE IF trace.isExternal THEN "external"
  ELSE "none"

\* the symbol appended to the header, in priority order
Marker(trace) ==
  IF trace.isSkipped THEN "skipped"
  ELSE IF trace.isRecursive THEN "RECURSION"
  ELSE IF trace.isExternal THEN "external"
  ELSE "none"

\* the location printed after the name, when fileName and lineNumber are truthy
Location(trace) ==
  IF trace.fileName # <<>> /\ trace.lineNumber # 0
    THEN [shown |-> TRUE,
          fileName |-> IF trace.fileName = <<"external">> THEN <<"external">>
                       ELSE PathRelative(Cwd, trace.fileName),
          lineNumber |-> trace.lineNumber]
    ELSE [shown |-> FALSE, fileName |-> <<>>, lineNumber |-> 0]

\* the lines written for jsDocDescription and jsDocRemarks
Narrative(trace) ==
  IF trace.jsDocDescription # NoText \/ trace.jsDocRemarks # NoText
    THEN (IF trace.jsDocDescription # NoText THEN <<trace.jsDocDescription>> ELSE <<>>)
           \o (IF trace.jsDocRemarks # NoText
                 THEN (IF trace.jsDocDescription # NoText THEN <<"">> ELSE <<>>)
                        \o <<trace.jsDocRemarks>>
                 ELSE <<>>)
           \o <<"">>
    ELSE <<>>

RECURSIVE FormatTrace(_, _, _, _)
RECURSIVE FormatChildren(_, _, _, _, _)
\* formatTrace(trace, prefix) of a formatter with the given recursiveFunctions
\* and includeStory
FormatTrace(trace, prefix, recursiveFunctions, story) ==
  << [prefix |-> prefix,
      name |-> trace.name,
      recursiveStyle |-> trace.name \in recursiveFunctions,
      location |-> Location(trace),
      marker |-> Marker(trace),
      narrative |-> Narrative(trace),
      blankLine |-> story] >>
    \o FormatChildren(trace, prefix, recursiveFunctions, story, 1)

\* trace.children.forEach from the child of the given index on
FormatChildren(trace, prefix, recursiveFunctions, story, index) ==
  IF index > Len(trace.children) THEN <<>>
  ELSE FormatTrace(trace.children[index],
                   GetChildPrefix(prefix, index, Len(trace.children)),
                   recursiveFunctions, story)
         \o FormatChildren(trace, prefix, recursiveFunctions, story, index + 1)

\* new TraceFormatter(!options.oneline).format(trace)
Format(trace) ==
  FormatTrace(trace, <<>>, IdentifyRecursiveFunctions(trace), ~options.oneline)

\* the top invocation with the current call expression consumed
Advance(fr) == [fr EXCEPT !.next = @ + 1]
\* mutant: a child whose name the node already has among its children is
\* not added
AddChildOnce(fr, child) ==
  IF \E i \in 1..Len(fr.trace.children) : fr.trace.children[i].name = child.name
    THEN [fr EXCEPT !.next = @ + 1]
    ELSE [fr EXCEPT !.trace.children = Append(@, child), !.next = @ + 1]

AddChild(fr, child) == [fr EXCEPT !.trace.children = Append(@, child), !.next = @ + 1]
ReplaceTop(fr) == [stack EXCEPT ![Len(stack)] = fr]

(***************************************************************************)
(* The command line.  An argument is a sequence: a flag is the sequence of *)
(* its one word, a path or a number the sequence of its characters, an     *)
(* entry point the sequence of its dot-separated identifiers.              *)
(***************************************************************************)
Flag(word) == <<word>>

\* an argument that is absent reads as undefined, which is falsy like ''
NoArg == <<>>

\* args[i]
ArgAt(args, i) == IF i <= Len(args) THEN args[i] ELSE NoArg

\* fs.existsSync(filePath) for the files of the project
ExistsSync(path) == \E f \in FileIds : Files[f].path = path

\* project.addSourceFileAtPath(filePath)
AddSourceFileAtPath(path) == Pick({f \in FileIds : Files[f].path = path})

\* the leading decimal digits of a string
RECURSIVE LeadingDigits(_)
LeadingDigits(str) ==
  IF str = <<>> \/ ~(\E i \in 1..10 : DigitChars[i] = Head(str)) THEN <<>>
  ELSE <<Head(str)>> \o LeadingDigits(Tail(str))

\* the number a string of decimal digits denotes
RECURSIVE DigitsValue(_)
DigitsValue(digits) ==
  IF digits = <<>> THEN 0
  ELSE 10 * DigitsValue(SubSeq(digits, 1, Len(digits) - 1))
         + ((CHOOSE i \in 1..10 : DigitChars[i] = digits[Len(digits)]) - 1)

\* parseInt(str, 10): an optional sign, then the leading digits; NaN without
\* a digit
ParseInt(str) ==
  LET signed == str # <<>> /\ str[1] \in {"-", "+"}
      digits == LeadingDigits(IF signed THEN Tail(str) ELSE str)
  IN  IF digits = <<>> THEN NaNDepth
      ELSE IF signed /\ str[1] = "-" THEN Num(0 - DigitsValue(digits))
      ELSE Num(DigitsValue(digits))

\* the options parseArgs starts its loop with
InitialOptions(args) ==
  [filePath |-> args[1], entryPoint |-> NoArg, scopeDirectory |-> NoArg,
   maxDepth |-> NoMaxDepth, oneline |-> FALSE]

\* the loop of parseArgs from args[i] on: the options it ends with, or
\* unknown = TRUE when it meets an argument that is no option
RECURSIVE ParseLoop(_, _, _)
ParseLoop(args, i, opts) ==
  IF i > Len(args) THEN [unknown |-> FALSE, options |-> opts]
  ELSE CASE args[i] = Flag("--entry") ->
              ParseLoop(args, i + 2, [opts EXCEPT !.entryPoint = ArgAt(args, i + 1)])
         [] args[i] = Flag("--scope") ->
              ParseLoop(args, i + 2, [opts EXCEPT !.scopeDirectory = ArgAt(args, i + 1)])
         [] args[i] = Flag("--max-depth") ->
              ParseLoop(args, i + 2, [opts EXCEPT !.maxDepth = ParseInt(ArgAt(args, i + 1))])
         [] args[i] = Flag("--oneline") ->
              ParseLoop(args, i + 1, [opts EXCEPT !.oneline = TRUE])
         [] OTHER -> [unknown |-> TRUE, options |-> opts]

\* what parseArgs does before it returns: "prompt", "help", "error" (a
\* message on stderr) or "options"
Exit(what, code) == [what |-> what, exitCode |-> code, options |-> InitialOptions(<<NoArg>>)]

\* parseArgs() for process.argv.slice(2) = args
ParseArgs(args) ==
  IF Flag("--prompt") \in {args[i] : i \in 1..Len(args)} THEN Exit("prompt", 0)
  ELSE IF Len(args) = 0 \/ Flag("--help") \in {args[i] : i \in 1..Len(args)}
                        \/ Flag("-h") \in {args[i] : i \in 1..Len(args)}
    THEN Exit("help", 0)
  ELSE Pick({ IF parsed.unknown THEN Exit("error", 1)
              ELSE IF parsed.options.entryPoint = NoArg THEN Exit("error", 1)
              ELSE IF parsed.options.scopeDirectory = NoArg THEN Exit("error", 1)
              ELSE IF ~ExistsSync(parsed.options.filePath) THEN Exit("error", 1)
              ELSE [what |-> "options", exitCode |-> 0, options |-> parsed.options]
      : parsed \in {ParseLoop(args, 2, InitialOptions(args))} })

\* mutant: showPrompt never ends the process
ShowPromptAlwaysPrints == "printed"

\* showPrompt(): "printed", or "exit" when reading PROMPT.md throws and
\* process.exit(1) ends the process
ShowPrompt == IF promptFile = "unreadable" THEN "exit" ELSE "printed"

(***************************************************************************)
(* Inputs.                                                                 *)
(***************************************************************************)
ScopeChoices == { <<"/", "s">>, <<"/", "s", "/">>, <<"/", "o">> }
\* the entry points tried on file f: every definition and variable of the
\* file, by bare name and as Class.method, and names the file does not have
EntryChoices(f) ==
  {<<d.name>> : d \in {e \in Defs : e.file = f}}
    \cup {<<d.cls, d.name>> : d \in {e \in Defs : e.file = f /\ e.kind = "method"}}
    \cup {<<v.name>> : v \in Files[f].vars}
    \cup {<<"nonexistentFunction">>, <<"Rec", "nothing">>, <<"Nope", "run">>}

EmptyBodies == [g \in GenNameSet |-> <<>>]

\* the values tried for --max-depth: no number, and -1 .. MaxDepthArg
IntToString(n) == IF n < 0 THEN <<"-">> \o NumberToString(0 - n) ELSE NumberToString(n)
DepthWords == {<<"x">>} \cup {IntToString(n) : n \in -1..MaxDepthArg}
DepthArgChoices == {<<>>} \cup {<<Flag("--max-depth"), d>> : d \in DepthWords}
OnelineArgChoices == {<<>>, <<Flag("--oneline")>>}

\* funcstory <file-path> --entry <entry-point> --scope <directory> [OPTIONS]
CommandLine(path, ep, sc, depthArgs, onelineArgs) ==
  <<path, Flag("--entry"), ep, Flag("--scope"), sc>> \o depthArgs \o onelineArgs

\* a path at which there is no file
MissingPath == <<"/", "s", "/", "z">>

\* the words of the short command lines: every option, a word that is no
\* option, a file, a missing file, an entry point and a directory
ArgWords ==
  { Flag("--entry"), Flag("--scope"), Flag("--max-depth"), Flag("--oneline"),
    Flag("--help"), Flag("-h"), Flag("--prompt"), Flag("--bogus"),
    Files["simple"].path, MissingPath, <<"factorial">>, <<"/", "s">> }

\* PROMPT.md: not there, there, or there and not readable (readFileSync throws)
PromptFileChoices == {"absent", "readable", "unreadable"}

\* main() is entered: the command line and the file system are the inputs
Init ==
  /\ \/ /\ genBody = EmptyBodies
        /\ promptFile = "absent"
        /\ \E f \in FileIds \ {"gen"}, sc \in ScopeChoices, da \in DepthArgChoices,
              oa \in OnelineArgChoices :
             \E ep \in EntryChoices(f) :
               argv = CommandLine(Files[f].path, ep, sc, da, oa)
     \/ /\ genBody \in [GenNameSet -> GenBodies]
        /\ promptFile = "absent"
        /\ \E sc \in ScopeChoices, da \in DepthArgChoices, oa \in OnelineArgChoices :
             \E ep \in EntryChoices("gen") :
               argv = CommandLine(Files["gen"].path, ep, sc, da, oa)
     \/ /\ genBody = EmptyBodies
        /\ promptFile \in PromptFileChoices
        /\ \/ argv \in SeqsUpTo(ArgWords, MaxArgs)
           \/ \E sc \in ScopeChoices, oa \in OnelineArgChoices :
                argv = CommandLine(MissingPath, <<"factorial">>, sc, <<>>, oa)
  /\ exitCode = <<>>
  /\ options = InitialOptions(<<NoArg>>)
  /\ scopeDirectory = NoArg
  /\ maxDepth = MaxDepthOrDefault(NoMaxDepth)
  /\ includeStory = TRUE
  /\ recursionStack = {}
  /\ stack = <<>>
  /\ pc = "main"
  /\ result = NoTrace
  /\ error = NoError
  /\ report = <<>>

(***************************************************************************)
(* main(): parseArgs, then either the status it gives is returned or the   *)
(* tracer is constructed from the options.                                 *)
(***************************************************************************)
\* parseArgs returns no options (help, prompt or an error message), or
\* showPrompt ends the process
MainExits ==
  /\ pc = "main"
  /\ \E r \in {ParseArgs(argv)} :
       /\ r.what # "options"
       /\ exitCode' = IF r.what = "prompt" /\ ShowPrompt = "exit" THEN <<1>>
                      ELSE <<r.exitCode>>
  /\ pc' = "exited"
  /\ UNCHANGED <<genBody, argv, promptFile, options, scopeDirectory, maxDepth,
                 includeStory, recursionStack, stack, result, error, report>>

\* new FunctionTracer(options)
MainConstructs ==
  /\ pc = "main"
  /\ \E r \in {ParseArgs(argv)} :
       /\ r.what = "options"
       /\ options' = r.options
       /\ scopeDirectory' = PathResolve(r.options.scopeDirectory)
       /\ maxDepth' = MaxDepthOrDefault(r.options.maxDepth)
       /\ includeStory' = ~r.options.oneline
  /\ pc' = "ready"
  /\ UNCHANGED <<genBody, argv, promptFile, exitCode, recursionStack, stack,
                 result, error, report>>

\* catch (error): the message is printed and main() returns 1
MainCatches ==
  /\ pc = "thrown"
  /\ exitCode' = <<1>>
  /\ pc' = "failed"
  /\ UNCHANGED <<genBody, argv, promptFile, options, scopeDirectory, maxDepth,
                 includeStory, recursionStack, stack, result, error, report>>

(***************************************************************************)
(* trace(filePath, entryPoint): the entry point is looked up and           *)
(* traceFunction(entryFunction, entryPoint, 0, []) is entered.             *)
(***************************************************************************)
TraceNotFound ==
  /\ pc = "ready"
  /\ FindEntryPoint(AddSourceFileAtPath(options.filePath), options.entryPoint) = NoDef
  /\ pc' = "thrown"
  /\ error' = "EntryPointNotFound"
  /\ UNCHANGED <<genBody, argv, promptFile, exitCode, options, scopeDirectory, maxDepth,
                 includeStory, recursionStack, stack, result, report>>

Trace ==
  /\ pc = "ready"
  /\ LET entry == FindEntryPoint(AddSourceFileAtPath(options.filePath), options.entryPoint)
         t == NewTrace(entry, options.entryPoint, <<>>)
     IN  /\ entry # NoDef
         /\ IF StopsExpansion(t, 0)
              THEN /\ result' = t
                   /\ pc' = "returned"
                   /\ UNCHANGED <<stack, recursionStack>>
              ELSE /\ stack' = <<Frame(entry, t, 0)>>
                   /\ recursionStack' = StackAdd(t.name)
                   /\ pc' = "tracing"
                   /\ UNCHANGED result
  /\ UNCHANGED <<genBody, argv, promptFile, exitCode, options, scopeDirectory, maxDepth,
                 includeStory, error, report>>

(***************************************************************************)
(* One iteration of the loop over the call expressions of the definition   *)
(* being expanded: resolveCall, isWithinScope, traceCall.                  *)
(***************************************************************************)
\* a lookup recursed without end: the RangeError unwinds every invocation
CallThrows ==
  /\ AtCall
  /\ Outcome.kind = "throw"
  /\ pc' = "thrown"
  /\ error' = "RangeError"
  /\ stack' = <<>>
  /\ UNCHANGED <<genBody, argv, promptFile, exitCode, options, scopeDirectory, maxDepth,
                 includeStory, recursionStack, result, report>>

\* resolveCall returned null or the call is not within scope: no child
CallDropped ==
  /\ AtCall
  /\ Outcome.kind = "drop"
  /\ stack' = ReplaceTop(Advance(Top))
  /\ UNCHANGED <<genBody, argv, promptFile, exitCode, options, scopeDirectory, maxDepth,
                 includeStory, recursionStack, pc, result, error, report>>

\* traceCall returns an external leaf
CallExternal ==
  /\ AtCall
  /\ Outcome.kind = "external"
  /\ stack' = ReplaceTop(AddChild(Top, Outcome.child))
  /\ UNCHANGED <<genBody, argv, promptFile, exitCode, options, scopeDirectory, maxDepth,
                 includeStory, recursionStack, pc, result, error, report>>

\* traceCall returns null: the target carries @funcstory-skip
CallOmitted ==
  /\ AtCall
  /\ Outcome.kind = "omit"
  /\ stack' = ReplaceTop(Advance(Top))
  /\ UNCHANGED <<genBody, argv, promptFile, exitCode, options, scopeDirectory, maxDepth,
                 includeStory, recursionStack, pc, result, error, report>>

\* traceFunction returns the child at once: recursive or at the depth limit
CallLeaf ==
  /\ AtCall
  /\ Outcome.kind = "leaf"
  /\ stack' = ReplaceTop(AddChild(Top, Outcome.child))
  /\ UNCHANGED <<genBody, argv, promptFile, exitCode, options, scopeDirectory, maxDepth,
                 includeStory, recursionStack, pc, result, error, report>>

\* traceFunction expands the child: its name enters the recursion stack
CallExpand ==
  /\ AtCall
  /\ Outcome.kind = "expand"
  /\ stack' = Append(stack, Frame(Outcome.info.target, Outcome.child, Top.depth + 1))
  /\ recursionStack' = StackAdd(Outcome.child.name)
  /\ UNCHANGED <<genBody, argv, promptFile, exitCode, options, scopeDirectory, maxDepth,
                 includeStory, pc, result, error, report>>

\* the loop of the top invocation is over: its name leaves the recursion
\* stack and its trace goes to the caller
FunctionReturns ==
  /\ pc = "tracing"
  /\ stack # <<>>
  /\ Top.next > Len(Top.calls)
  /\ recursionStack' = StackDelete(Top.trace.name)
  /\ IF Len(stack) = 1
       THEN /\ result' = Top.trace
            /\ pc' = "returned"
            /\ stack' = <<>>
       ELSE /\ stack' = [SubSeq(stack, 1, Len(stack) - 1)
                           EXCEPT ![Len(stack) - 1] = AddChild(@, Top.trace)]
            /\ UNCHANGED <<pc, result>>
  /\ UNCHANGED <<genBody, argv, promptFile, exitCode, options, scopeDirectory, maxDepth,
                 includeStory, error, report>>

\* main(): the trace returned is formatted and printed, and main() returns 0
PrintReport ==
  /\ pc = "returned"
  /\ report' = Format(result)
  /\ exitCode' = <<0>>
  /\ pc' = "printed"
  /\ UNCHANGED <<genBody, argv, promptFile, options, scopeDirectory, maxDepth,
                 includeStory, recursionStack, stack, result, error>>

Next ==
  \/ MainExits
  \/ MainConstructs
  \/ MainCatches
  \/ TraceNotFound
  \/ Trace
  \/ CallThrows
  \/ CallDropped
  \/ CallExternal
  \/ CallOmitted
  \/ CallLeaf
  \/ CallExpand
  \/ FunctionReturns
  \/ PrintReport

Spec == Init /\ [][Next]_vars

\* the traversal is synchronous: every step that can be taken is taken
FairSpec == Spec /\ WF_vars(Next)

(***************************************************************************)
(* The nodes of a call tree, each with its depth, the names of its         *)
(* ancestors from the root down and its position (the child indices from   *)
(* the root).                                                              *)
(***************************************************************************)
RECURSIVE NodesAt(_, _, _, _)
NodesAt(t, depth, anc, pos) ==
  {[node |-> t, depth |-> depth, anc |-> anc, pos |-> pos]}
    \cup UNION { NodesAt(t.children[i], depth + 1, Append(anc, t.name), Append(pos, i))
                 : i \in 1..Len(t.children) }

Nodes(t) == NodesAt(t, 0, <<>>, <<>>)

Range(seq) == {seq[i] : i \in 1..Len(seq)}

\* trace() has returned a tree
Returned == pc \in {"returned", "printed"}

\* the definitions at the location a node records
DefsAt(n) == {d \in Defs : Files[d.file].path = n.fileName /\ d.line = n.lineNumber}

(***************************************************************************)
(* C1: for every project, recursive call graphs included, and every        *)
(* maxDepth, trace() terminates and returns a tree once the entry point    *)
(* has been found.  The two halves: no run of trace() ends in an exception *)
(* other than the entry point not being found, and every run ends.         *)
(***************************************************************************)
C1_TraceReturnsTree == pc = "thrown" => error = "EntryPointNotFound"

C1_Terminates == <>(pc \in {"printed", "failed", "exited"})

(***************************************************************************)
(* C2: in every tree trace() returns, a node with isRecursive, isExternal  *)
(* or isSkipped set has no children.                                       *)
(***************************************************************************)
C2_FlaggedNodesAreLeaves ==
  Returned =>
    \A x \in Nodes(result) :
      (x.node.isRecursive \/ x.node.isExternal \/ x.node.isSkipped)
        => x.node.children = <<>>

\* a returned tree with a recursive node and an external node below the root
C2_Witness ==
  /\ Returned
  /\ \E x, y \in Nodes(result) :
       x.node.isRecursive /\ x.depth > 1 /\ y.node.isExternal

(***************************************************************************)
(* C3: when maxDepth is supplied as a non-negative integer, no node of the *)
(* returned tree is deeper than maxDepth and every node at depth maxDepth  *)
(* has no children.                                                        *)
(***************************************************************************)
C3_DepthWithinSuppliedMaximum ==
  (Returned /\ options.maxDepth.kind = "num" /\ options.maxDepth.value >= 0) =>
    \A x \in Nodes(result) :
      /\ x.depth <= options.maxDepth.value
      /\ x.depth = options.maxDepth.value => x.node.children = <<>>

\* the names of a node's children, in order
ChildNames(n) == [i \in 1..Len(n.children) |-> n.children[i].name]

\* two positions in the tree neither of which lies on the path to the other
Apart(p, q) == ~IsPrefix(p, q) /\ ~IsPrefix(q, p)

(***************************************************************************)
(* C4, as stated: for every node of the returned tree, isRecursive is true *)
(* if and only if the node's name equals the name of one of the nodes on   *)
(* the path from the root to the node's parent.                            *)
(***************************************************************************)
C4_RecursiveIffNameOnPath ==
  Returned =>
    \A x \in Nodes(result) :
      x.node.isRecursive <=> x.node.name \in Range(x.anc)

(***************************************************************************)
(* C4, amended: the equivalence holds for every node that is not an        *)
(* external leaf; an external leaf has isRecursive = false even when its   *)
(* name is the name of one of its ancestors.                               *)
(***************************************************************************)
C4_RecursiveIffNameOnPathUnlessExternal ==
  Returned =>
    \A x \in Nodes(result) :
      /\ ~x.node.isExternal => (x.node.isRecursive <=> x.node.name \in Range(x.anc))
      /\ x.node.isExternal => ~x.node.isRecursive

\* a tree with a node flagged below its own name, and the same name twice in
\* branches apart from each other with neither occurrence flagged
C4_Witness ==
  /\ Returned
  /\ \E x, y, z \in Nodes(result) :
       /\ x.node.isRecursive /\ x.depth >= 2
       /\ y.node.name = z.node.name /\ Apart(y.pos, z.pos)
       /\ ~y.node.isExternal /\ ~y.node.isRecursive
       /\ ~z.node.isExternal /\ ~z.node.isRecursive

(***************************************************************************)
(* C5: whenever an expanded node (the root included) has a child whose     *)
(* definition is the node's own definition, that child has isRecursive =   *)
(* true and no children.                                                   *)
(***************************************************************************)
C5_SelfCallFlagged ==
  Returned =>
    \A x \in Nodes(result) :
      \A i \in 1..Len(x.node.children) :
        LET c == x.node.children[i]
        IN  (~x.node.isExternal /\ ~c.isExternal
             /\ DefsAt(c) # {} /\ DefsAt(c) = DefsAt(x.node))
              => (c.isRecursive /\ c.children = <<>>)

(***************************************************************************)
(* C6: when the same definition occurs at two positions of the returned    *)
(* tree that are apart from each other, and at neither position the        *)
(* occurrence's name is the name of one of its own ancestors, both         *)
(* occurrences have isRecursive = false, and when both are above the       *)
(* maximum depth both are expanded into the same sequence of child names.  *)
(***************************************************************************)
C6_IndependentBranches ==
  Returned =>
    \A x, y \in Nodes(result) :
      (/\ Apart(x.pos, y.pos)
       /\ ~x.node.isExternal /\ ~y.node.isExternal
       /\ DefsAt(x.node) # {} /\ DefsAt(x.node) = DefsAt(y.node)
       /\ x.node.name \notin Range(x.anc)
       /\ y.node.name \notin Range(y.anc))
        => /\ ~x.node.isRecursive /\ ~y.node.isRecursive
           /\ (x.depth < maxDepth /\ y.depth < maxDepth)
                => ChildNames(x.node) = ChildNames(y.node)

\* the same definition expanded, with children, in two branches apart from
\* each other
C6_Witness ==
  /\ Returned
  /\ \E x, y \in Nodes(result) :
       /\ Apart(x.pos, y.pos)
       /\ ~x.node.isExternal /\ ~y.node.isExternal
       /\ DefsAt(x.node) # {} /\ DefsAt(x.node) = DefsAt(y.node)
       /\ x.node.children # <<>> /\ y.node.children # <<>>

\* every definition has its own location
DefLocationsDistinct ==
  \A d, e \in Defs : (d.file = e.file /\ d.line = e.line) => d = e

\* the text of a call expression, as the name of the node made for it
CallText(s) == IF s.kind = "id" THEN <<s.prop>> ELSE s.obj \o <<s.prop>>

\* the node went through the loop over its call expressions
Expanded(x) ==
  /\ ~x.node.isExternal /\ ~x.node.isRecursive /\ ~x.node.isSkipped
  /\ x.depth < maxDepth

\* the call expressions of the definition of an expanded node of the tree, each
\* with that definition and the node
TracedCalls ==
  UNION { UNION { { [x |-> x, d |-> d, s |-> s] : s \in Range(GetCallExpressions(d)) }
                  : d \in DefsAt(x.node) }
          : x \in {y \in Nodes(result) : Expanded(y)} }

\* the call expression resolves to an in-scope definition tagged @funcstory-skip
SkipCallee(s, d) ==
  \E info \in {ResolveCall(s, d)} :
    /\ info.kind = "call" /\ info.target # NoDef /\ ~info.isExternal
    /\ info.target.kind \in {"function", "method"} /\ info.target.skip

EntryDef == FindEntryPoint(AddSourceFileAtPath(options.filePath), options.entryPoint)

\* the entry point's own definition carries @funcstory-skip
EntrySkipTagged ==
  /\ Returned
  /\ \E d \in {EntryDef} : d.kind \in {"function", "method"} /\ d.skip

(***************************************************************************)
(* C8: when the entry point's own definition is tagged @funcstory-skip,    *)
(* trace() returns a single node for it with isSkipped = true and no       *)
(* children, and the report consists of the entry for that node, marked as *)
(* skipped.                                                                *)
(***************************************************************************)
C8_SelfSkipShown ==
  EntrySkipTagged =>
    /\ result.name = options.entryPoint
    /\ result.isSkipped
    /\ result.children = <<>>
    /\ pc = "printed" =>
         /\ Len(report) = 1
         /\ report[1].name = options.entryPoint
         /\ report[1].marker = "skipped"

\* the report printed for a skip-tagged entry point whose body has calls
C8_Witness ==
  /\ pc = "printed"
  /\ EntrySkipTagged
  /\ GetCallExpressions(EntryDef) # <<>>

\* the name is bound by an import of file f from a file marked
\* @funcstory-skip-file
ImportedFromSkipFile(f, n) ==
  \E m \in {FirstImport(f, n)} : m # NoFile /\ Files[m].skipFile

\* the call names an imported function, or a method of an imported class as
\* Class.method, of a file marked @funcstory-skip-file
ByImportedName(s, d) ==
  \/ s.kind = "id" /\ ImportedFromSkipFile(d.file, s.prop)
  \/ s.kind = "prop" /\ Len(s.obj) = 1 /\ ImportedFromSkipFile(d.file, s.obj[1])

\* the call is v.m() for a top-level variable v of the calling file whose type
\* is a class of a file marked @funcstory-skip-file that declares m
ViaTypedVariable(s, d) ==
  /\ s.kind = "prop" /\ Len(s.obj) = 1
  /\ \E v \in Files[d.file].vars :
       /\ v.name = s.obj[1] /\ v.type # NoType
       /\ Files[v.type.file].skipFile
       /\ GetMethod(v.type.file, v.type.cls, s.prop) # NoDef

\* the calling file and every file marked @funcstory-skip-file are in scope
SkipFilesInScope(d) ==
  /\ IsPrefix(scopeDirectory, Files[d.file].path)
  /\ \A f \in FileIds : Files[f].skipFile => IsPrefix(scopeDirectory, Files[f].path)

\* a child of the node that is an external leaf of the given name
ExternalChild(n, name) ==
  \E i \in 1..Len(n.children) :
    /\ n.children[i].name = name
    /\ n.children[i].isExternal
    /\ n.children[i].children = <<>>

(***************************************************************************)
(* C9: every call of an expanded node's definition to a function or class  *)
(* method of a file marked @funcstory-skip-file (calling file and skipped  *)
(* file both in scope) produces a child with isExternal = true and no      *)
(* children.                                                               *)
(***************************************************************************)
C9_SkipFileCallsExternal ==
  Returned =>
    \A c \in TracedCalls :
      (SkipFilesInScope(c.d) /\ ~Files[c.d.file].skipFile
       /\ (ByImportedName(c.s, c.d) \/ ViaTypedVariable(c.s, c.d)))
        => ExternalChild(c.x.node, CallText(c.s))

\* the names file f imports from files marked @funcstory-skip-file, and the
\* names of the methods of the classes among them
SkippedFileNames(f) ==
  LET imported == {n \in UNION {Files[f].imports[i].names : i \in 1..Len(Files[f].imports)} :
                     ImportedFromSkipFile(f, n)}
  IN  imported \cup {e.name : e \in {e \in Defs : /\ e.kind = "method"
                                                  /\ Files[e.file].skipFile
                                                  /\ e.cls \in imported}}

ResolvesOutsideScope(s, d) ==
  \E info \in {ResolveCall(s, d)} :
    info.kind = "call" /\ info.target # NoDef /\ ~IsInScope(info.target)

(***************************************************************************)
(* C11: every call of an expanded node's definition (the definition itself *)
(* inside the scope root) whose resolved definition lies in a file outside *)
(* the scope root gives the node a child with isExternal = true and no     *)
(* children.                                                               *)
(***************************************************************************)
C11_OutOfScopeCallsExternal ==
  Returned =>
    \A c \in TracedCalls :
      (IsInScope(c.d) /\ ResolvesOutsideScope(c.s, c.d))
        => ExternalChild(c.x.node, CallText(c.s))

\* main() has returned, or the process has exited
Done == exitCode # <<>>

\* help is requested: --help, -h or no arguments
HelpAsked ==
  argv = <<>> \/ Flag("--help") \in Range(argv) \/ Flag("-h") \in Range(argv)

\* --prompt is requested
PromptAsked == Flag("--prompt") \in Range(argv)

\* --entry, or --scope, is not on the command line
EntryMissing == Flag("--entry") \notin Range(argv)
ScopeMissing == Flag("--scope") \notin Range(argv)

\* the first argument names no file
FileMissing == argv # <<>> /\ ~ExistsSync(argv[1])

\* an argument that is no option, after the file path and not in the place of
\* an option's value
UnknownGiven ==
  \E i \in 2..Len(argv) :
    /\ argv[i] = Flag("--bogus")
    /\ argv[i - 1] \notin {Flag("--entry"), Flag("--scope"), Flag("--max-depth")}

\* one of the failures: --entry missing, --scope missing, no such file, an
\* unknown argument, the entry point not found in the file
FailureCase ==
  \/ EntryMissing \/ ScopeMissing \/ FileMissing \/ UnknownGiven
  \/ error = "EntryPointNotFound"

(***************************************************************************)
(* C12, as stated: main() returns 0 when help or --prompt is requested or  *)
(* tracing succeeds; when neither help nor --prompt is requested it        *)
(* returns 1 in each failure case, and then no trace report is printed.    *)
(***************************************************************************)
C12_ExitCodes ==
  Done =>
    /\ (HelpAsked \/ PromptAsked \/ pc = "printed") => exitCode = <<0>>
    /\ (~HelpAsked /\ ~PromptAsked /\ FailureCase) => (exitCode = <<1>> /\ report = <<>>)

(***************************************************************************)
(* C12, amended: with --prompt requested the status is 0, except that the  *)
(* process exits with status 1 when PROMPT.md exists and cannot be read;   *)
(* otherwise with help requested main() returns 0; otherwise it returns 1  *)
(* in each failure case and 0 when tracing succeeds; a report is printed   *)
(* only when tracing succeeds.                                             *)
(***************************************************************************)
C12_ExitCodesPromptFirst ==
  Done =>
    /\ PromptAsked =>
         exitCode = (IF promptFile = "unreadable" THEN <<1>> ELSE <<0>>)
    /\ (~PromptAsked /\ HelpAsked) => exitCode = <<0>>
    /\ (~PromptAsked /\ ~HelpAsked /\ FailureCase) => exitCode = <<1>>
    /\ pc = "printed" => exitCode = <<0>>
    /\ pc # "printed" => report = <<>>

\* main() has returned 1 for an unknown argument while the file exists and
\* --entry is given
C12_Witness ==
  /\ Done /\ exitCode = <<1>>
  /\ UnknownGiven /\ ~FileMissing /\ ~EntryMissing
  /\ ~HelpAsked /\ ~PromptAsked

\* the number of decimal digits of n >= 1
DigitCount(n) == CHOOSE w \in 1..4 : 10 ^ (w - 1) <= n /\ n < 10 ^ w

\* i written in decimal with w digits, leading zeros included
Decimal(i, w) == [k \in 1..w |-> DigitChars[((i \div (10 ^ (w - k))) % 10) + 1]]

\* the label of the i-th of n children of a node labelled `label`
ChildLabel(label, i, n) ==
  IF label = <<>> THEN Decimal(i, DigitCount(n))
  ELSE label \o <<".">> \o Decimal(i, DigitCount(n))

\* the labels of the nodes of a tree in the order of the report, the root of
\* the tree being labelled `label`
RECURSIVE Labels(_, _)
RECURSIVE ChildLabelsFrom(_, _, _)
Labels(t, label) == <<label>> \o ChildLabelsFrom(t, label, 1)

ChildLabelsFrom(t, label, i) ==
  IF i > Len(t.children) THEN <<>>
  ELSE Labels(t.children[i], ChildLabel(label, i, Len(t.children)))
         \o ChildLabelsFrom(t, label, i + 1)

\* the label of a report entry: its prefix without the dot that ends the
\* prefix of a child of the root
LabelOf(prefix) ==
  IF prefix # <<>> /\ prefix[Len(prefix)] = "." THEN SubSeq(prefix, 1, Len(prefix) - 1)
  ELSE prefix

(***************************************************************************)
(* C13: in the printed report the label of the i-th of the n children of   *)
(* a node is the node's label, a dot, and i in decimal padded with zeros   *)
(* to the number of digits of n; the children of the root have no parent   *)
(* part.                                                                   *)
(***************************************************************************)
C13_Numbering ==
  pc = "printed" =>
    [i \in 1..Len(report) |-> LabelOf(report[i].prefix)] = Labels(result, <<>>)

\* a printed report with ten siblings below a child of the root, and two
\* siblings below the root
C13_Witness ==
  /\ pc = "printed"
  /\ Len(result.children) = 2
  /\ Len(result.children[1].children) = 10
  /\ \E i \in 1..Len(report) : report[i].prefix = <<"1", ".", "0", "3">>

\* the nodes of a tree in the order of the report
RECURSIVE Linear(_)
RECURSIVE LinearFrom(_, _)
Linear(t) == <<t>> \o LinearFrom(t, 1)

LinearFrom(t, i) ==
  IF i > Len(t.children) THEN <<>>
  ELSE Linear(t.children[i]) \o LinearFrom(t, i + 1)

(***************************************************************************)
(* C14: in oneline mode no node carries a description or remarks and no    *)
(* entry of the report renders narrative lines; in story mode the entry of *)
(* a node whose definition has both starts its narrative with the          *)
(* description, one blank line, the remarks, and the entry of a node whose *)
(* definition has neither has no narrative lines.                          *)
(***************************************************************************)
C14_NarrativeToggle ==
  pc = "printed" =>
    \E L \in {Linear(result)} :
      /\ Len(report) = Len(L)
      /\ \A i \in 1..Len(L) :
           IF options.oneline
             THEN /\ report[i].narrative = <<>>
                  /\ L[i].jsDocDescription = NoText
                  /\ L[i].jsDocRemarks = NoText
             ELSE \A d \in DefsAt(L[i]) :
                    ~L[i].isExternal =>
                      /\ (d.descr # NoText /\ d.remarks # NoText) =>
                           /\ Len(report[i].narrative) = 4
                           /\ SubSeq(report[i].narrative, 1, 3) = <<d.descr, "", d.remarks>>
                      /\ (d.descr = NoText /\ d.remarks = NoText) =>
                           report[i].narrative = <<>>

\* a report in story mode with a node that has description and remarks and a
\* node that has neither
C14_Witness ==
  /\ pc = "printed"
  /\ ~options.oneline
  /\ \E i, j \in 1..Len(report) :
       /\ Len(report[i].narrative) = 4
       /\ report[j].narrative = <<>>

\* the one marker the precedence isSkipped > isRecursive > isExternal gives
MarkerByPrecedence(isSkipped, isRecursive, isExternal) ==
  CASE isSkipped -> "skipped"
    [] ~isSkipped /\ isRecursive -> "RECURSION"
    [] ~isSkipped /\ ~isRecursive /\ isExternal -> "external"
    [] OTHER -> "none"

(***************************************************************************)
(* C15: every entry of the printed report carries the one marker that the  *)
(* precedence isSkipped > isRecursive > isExternal gives for the flags of  *)
(* its node, or none; and the formatter chooses by that precedence for     *)
(* every combination of the three flags.                                   *)
(***************************************************************************)
C15_MarkerPrecedence ==
  /\ \A sk, rec, ext \in BOOLEAN :
       Marker([isSkipped |-> sk, isRecursive |-> rec, isExternal |-> ext])
         = MarkerByPrecedence(sk, rec, ext)
  /\ pc = "printed" =>
       \E L \in {Linear(result)} :
         /\ Len(report) = Len(L)
         /\ \A i \in 1..Len(L) :
              report[i].marker
                = MarkerByPrecedence(L[i].isSkipped, L[i].isRecursive, L[i].isExternal)

\* a printed report with a RECURSION marker, an external marker and an entry
\* without marker
C15_Witness ==
  /\ pc = "printed"
  /\ \E i, j, k \in 1..Len(report) :
       /\ report[i].marker = "RECURSION"
       /\ report[j].marker = "external"
       /\ report[k].marker = "none"

(***************************************************************************)
(* C16: every entry of the printed report shows a location after the name: *)
(* the file path relative to the working directory and the line of the     *)
(* node, and external:0 for an external node without a located target.     *)
(***************************************************************************)
C16_LocationInHeader ==
  pc = "printed" =>
    \E L \in {Linear(result)} :
      /\ Len(report) = Len(L)
      /\ \A i \in 1..Len(L) :
           /\ report[i].location.shown
           /\ IF L[i].fileName = <<"external">>
                THEN /\ report[i].location.fileName = <<"external">>
                     /\ report[i].location.lineNumber = 0
                ELSE /\ report[i].location.fileName = PathRelative(Cwd, L[i].fileName)
                     /\ report[i].location.lineNumber = L[i].lineNumber

\* the methods a call v.m() denotes when v is a top-level variable of the
\* calling file whose type is a class that declares m, the class in scope and
\* its file not marked @funcstory-skip-file
MethodsViaVariable(s, d) ==
  IF s.kind = "prop" /\ Len(s.obj) = 1
    THEN { GetMethod(v.type.file, v.type.cls, s.prop) :
             v \in { w \in Files[d.file].vars :
                       /\ w.name = s.obj[1] /\ w.type # NoType
                       /\ ~Files[w.type.file].skipFile
                       /\ IsPrefix(scopeDirectory, Files[w.type.file].path)
                       /\ GetMethod(w.type.file, w.type.cls, s.prop) # NoDef } }
    ELSE {}

(***************************************************************************)
(* C17: a call v.m() of an expanded node's definition (in scope), where v  *)
(* is a variable whose type is a class inside the scope root that declares *)
(* m, gives the node a child that is not external and records the location *)
(* of m.                                                                   *)
(***************************************************************************)
C17_VariableMethodResolved ==
  Returned =>
    \A c \in TracedCalls :
      \A m \in MethodsViaVariable(c.s, c.d) :
        IsInScope(c.d) =>
          \E i \in 1..Len(c.x.node.children) :
            /\ c.x.node.children[i].name = CallText(c.s)
            /\ ~c.x.node.children[i].isExternal
            /\ c.x.node.children[i].fileName = Files[m.file].path
            /\ c.x.node.children[i].lineNumber = m.line

\* call expression s of definition d passes the admission test of the loop
\* of traceFunction and its target carries no @funcstory-skip tag
Kept(s, d) ==
  \E info \in {ResolveCall(s, d)} :
    /\ info.kind = "call"
    /\ IsWithinScope(d, info.name) = "yes"
    /\ ~SkipCallee(s, d)

\* the texts of the kept call expressions of d from the i-th on, in source
\* order
RECURSIVE KeptTexts(_, _, _)
KeptTexts(calls, d, i) ==
  IF i > Len(calls) THEN <<>>
  ELSE (IF Kept(calls[i], d) THEN <<CallText(calls[i])>> ELSE <<>>)
         \o KeptTexts(calls, d, i + 1)

(***************************************************************************)
(* C18: the children of an expanded node are, one to one and in source     *)
(* order, the call sites of its definition that pass the admission test    *)
(* and whose target is not skip-tagged: no call site gives no child, and   *)
(* two calls of the same function give two children.                       *)
(***************************************************************************)
C18_ChildrenFollowCallSites ==
  Returned =>
    \A x \in Nodes(result) :
      Expanded(x) =>
        \A d \in DefsAt(x.node) :
          /\ ChildNames(x.node) = KeptTexts(GetCallExpressions(d), d, 1)
          /\ GetCallExpressions(d) = <<>> => x.node.children = <<>>

\* a node is returned with two children for two calls of the same function
C18_Witness ==
  /\ Returned
  /\ \E x \in Nodes(result) :
       /\ Expanded(x)
       /\ \E i, j \in 1..Len(x.node.children) :
            i < j /\ x.node.children[i].name = x.node.children[j].name

\* the kept call expressions of d from the i-th on, in source order: the
\* i-th child of a node comes from the i-th of them
RECURSIVE KeptSites(_, _, _)
KeptSites(calls, d, i) ==
  IF i > Len(calls) THEN <<>>
  ELSE (IF Kept(calls[i], d) THEN <<calls[i]>> ELSE <<>>) \o KeptSites(calls, d, i + 1)

\* the file at `path` is the scope root or lies in a directory below it
BelowScopeRoot(path) ==
  \/ path = scopeDirectory
  \/ IsPrefix(IF scopeDirectory = <<"/">> THEN scopeDirectory
                                          ELSE scopeDirectory \o <<"/">>, path)

\* what a call is resolved to makes its node external: no definition, a
\* definition outside the scope root, or one in a @funcstory-skip-file file
ResolvedExternally(info) ==
  \/ info.target = NoDef
  \/ ~BelowScopeRoot(Files[info.target.file].path)
  \/ Files[info.target.file].skipFile

(***************************************************************************)
(* C19: for every non-root node of the returned tree, isExternal is true   *)
(* if and only if its call resolved to no definition, to a definition      *)
(* outside the scope root, or to one in a file marked @funcstory-skip-file. *)
(***************************************************************************)
C19_ExternalIffUnresolved ==
  Returned =>
    \A x \in Nodes(result) :
      Expanded(x) =>
        \A d \in DefsAt(x.node) :
          \E sites \in {KeptSites(GetCallExpressions(d), d, 1)} :
            /\ Len(sites) = Len(x.node.children)
            /\ \A i \in 1..Len(sites) :
                 \E info \in {ResolveCall(sites[i], d)} :
                   x.node.children[i].isExternal <=> ResolvedExternally(info)

\* call expression s of definition d is read by resolveCall and fails the
\* admission test
FailsAdmission(s, d) ==
  \E info \in {ResolveCall(s, d)} :
    info.kind = "call" /\ IsWithinScope(d, info.name) = "no"

\* the number of call expressions of d, from the i-th on, that fail it
RECURSIVE FailedCount(_, _, _)
FailedCount(calls, d, i) ==
  IF i > Len(calls) THEN 0
  ELSE (IF FailsAdmission(calls[i], d) THEN 1 ELSE 0) + FailedCount(calls, d, i + 1)

(***************************************************************************)
(* C20: a call site that fails the admission test contributes no node: the *)
(* node of the calling definition has no child of that name, expanded or   *)
(* external, and at most as many children as call sites that did not fail. *)
(***************************************************************************)
C20_FailedAdmissionNoNode ==
  Returned =>
    \A c \in TracedCalls :
      FailsAdmission(c.s, c.d) =>
        /\ \A i \in 1..Len(c.x.node.children) :
             c.x.node.children[i].name # CallText(c.s)
        /\ Len(c.x.node.children) + FailedCount(GetCallExpressions(c.d), c.d, 1)
             <= Len(GetCallExpressions(c.d))

\* a tree is returned whose root definition calls console.log and a name that
\* is neither declared nor imported, next to a call that gave a child
C20_Witness ==
  /\ Returned
  /\ result.children # <<>>
  /\ \E c, e \in TracedCalls :
       /\ c.x.pos = <<>> /\ e.x.pos = <<>>
       /\ c.s = Prop(<<"console">>, "log") /\ FailsAdmission(c.s, c.d)
       /\ e.s = Id("undeclared") /\ FailsAdmission(e.s, e.d)

\* the tracer has been constructed: scopeDirectory holds the resolved scope
\* root
Constructed == pc \notin {"main", "exited"}

(***************************************************************************)
(* C21: isInScope(definition) is true if and only if the file of the       *)
(* definition is the scope root or lies in a directory below it; a file in *)
(* a sibling directory whose path begins with the characters of the scope  *)
(* root is not in scope.                                                   *)
(***************************************************************************)
C21_InScopeIffBelowRoot ==
  Constructed =>
    \A d \in Defs : IsInScope(d) <=> BelowScopeRoot(Files[d.file].path)

(***************************************************************************)
(* C22: resolution of a call site terminates without raising for every     *)
(* import graph, cyclic ones included: neither resolveCall nor the         *)
(* admission test that repeats the definition search ends in an exception. *)
(***************************************************************************)
C22_ResolutionNeverRaises ==
  AtCall =>
    \E info \in {ResolveCall(Site, Top.node)} :
      /\ info.kind # "overflow"
      /\ info.kind = "call" => IsWithinScope(Top.node, info.name) # "overflow"

\* the names of the invocations of traceFunction whose expansion has started
\* and not finished: the chain from the root to the node being expanded
ActiveNames == {stack[i].trace.name : i \in 1..Len(stack)}

(***************************************************************************)
(* C23: as long as no exception has ended the traversal, recursionStack    *)
(* holds exactly the names of the nodes whose expansion has started and    *)
(* not finished; it is empty before trace() starts and when trace() has    *)
(* returned, and an early return (recursion, depth limit, skip) leaves it  *)
(* as it was.                                                              *)
(***************************************************************************)
C23_RecursionStackIsActivePath ==
  pc \notin {"thrown", "failed"} =>
    /\ recursionStack = ActiveNames
    /\ Cardinality(recursionStack) = Len(stack)
    /\ pc # "tracing" => recursionStack = {}

\* two expansions are under way and the inner one has just received a child
\* that returned early as a recursive call
C23_Witness ==
  /\ pc = "tracing"
  /\ Len(stack) >= 2
  /\ Cardinality(recursionStack) >= 2
  /\ \E i \in 1..Len(Top.trace.children) : Top.trace.children[i].isRecursive

(***************************************************************************)
(* C24: when an exception raised while a call site is resolved or traced   *)
(* has aborted the expansion of a node and propagated, the names of the    *)
(* aborted expansions have left recursionStack: it equals the chain of     *)
(* expansions still under way.                                             *)
(***************************************************************************)
C24_ExceptionReleasesName ==
  pc \in {"thrown", "failed"} => recursionStack = ActiveNames

(***************************************************************************)
(* C25: format() highlights by name: an entry of the report has the        *)
(* recursive-name style if and only if some node of the tree has the same  *)
(* name and isRecursive = true, so the occurrence of a recursive function  *)
(* that is not flagged itself is highlighted too.                          *)
(***************************************************************************)
C25_HighlightByName ==
  pc = "printed" =>
    \E L \in {Linear(result)} :
      /\ Len(report) = Len(L)
      /\ \A i \in 1..Len(L) :
           /\ report[i].name = L[i].name
           /\ report[i].recursiveStyle <=>
                \E x \in Nodes(result) : x.node.name = L[i].name /\ x.node.isRecursive

\* a report with a highlighted entry for a node that is not flagged and an
\* entry without the style
C25_Witness ==
  /\ pc = "printed"
  /\ \E L \in {Linear(result)} :
       \E i, j \in 1..Len(report) :
         /\ report[i].recursiveStyle /\ ~L[i].isRecursive
         /\ ~report[j].recursiveStyle

\* the texts of the call expressions of d that lie in the body of d itself,
\* not in the body of a function or class nested in it
OwnCallTexts(d) ==
  {CallText(BodyOf(d)[i]) : i \in {j \in 1..Len(BodyOf(d)) : BodyOf(d)[j].kind # "nested"}}

(***************************************************************************)
(* C26: the call sites in the body of a function nested in the definition  *)
(* being expanded give the enclosing node no children: every child of an   *)
(* expanded node is named after a call site of the definition's own body.  *)
(***************************************************************************)
C26_NestedBodiesNotEnumerated ==
  Returned =>
    \A x \in Nodes(result) :
      Expanded(x) =>
        \A d \in DefsAt(x.node) :
          \A i \in 1..Len(x.node.children) :
            x.node.children[i].name \in OwnCallTexts(d)

\* the depths of the nodes of a tree in the order of the report
RECURSIVE Depths(_, _)
RECURSIVE ChildDepthsFrom(_, _, _)
Depths(t, depth) == <<depth>> \o ChildDepthsFrom(t, depth, 1)

ChildDepthsFrom(t, depth, i) ==
  IF i > Len(t.children) THEN <<>>
  ELSE Depths(t.children[i], depth + 1) \o ChildDepthsFrom(t, depth, i + 1)

\* the entry of the parent of the i-th entry, D being the depths in order
ParentEntry(D, i) ==
  CHOOSE j \in 1..(i - 1) :
    D[j] = D[i] - 1 /\ \A k \in (j + 1)..(i - 1) : D[k] >= D[i]

\* the number of the components of a label, which dots separate
Components(label) ==
  IF label = <<>> THEN 0 ELSE Cardinality({k \in 1..Len(label) : label[k] = "."}) + 1

\* a label without its last component
WithoutLast(label) ==
  IF \E k \in 1..Len(label) : label[k] = "."
    THEN SubSeq(label, 1,
                (CHOOSE k \in 1..Len(label) :
                   label[k] = "." /\ \A m \in (k + 1)..Len(label) : label[m] # ".") - 1)
    ELSE <<>>

(***************************************************************************)
(* C27: in every report the labels of the nodes other than the root are    *)
(* pairwise distinct, a label has as many dot-separated components as the  *)
(* node's depth, and a label without its last component is the label of    *)
(* the node's parent.                                                      *)
(***************************************************************************)
C27_LabelsIdentifyNodes ==
  pc = "printed" =>
    \E D \in {Depths(result, 0)} :
      \E lab \in {[i \in 1..Len(report) |-> LabelOf(report[i].prefix)]} :
        /\ Len(D) = Len(report)
        /\ \A i \in 2..Len(report) :
             /\ Components(lab[i]) = D[i]
             /\ WithoutLast(lab[i]) = lab[ParentEntry(D, i)]
             /\ \A j \in 2..Len(report) : i # j => lab[i] # lab[j]

\* a printed report with a node at depth 3 and two siblings at depth 2
C27_Witness ==
  /\ pc = "printed"
  /\ \E i, j, k \in 2..Len(report) :
       /\ Components(LabelOf(report[i].prefix)) >= 3
       /\ j # k
       /\ Components(LabelOf(report[j].prefix)) = 2
       /\ WithoutLast(LabelOf(report[j].prefix)) = WithoutLast(LabelOf(report[k].prefix))

Above(y, x) == Len(y.pos) < Len(x.pos) /\ IsPrefix(y.pos, x.pos)

(***************************************************************************)
(* C29: a node is flagged isRecursive only when the definition it resolves *)
(* to is the definition of one of its ancestors; two distinct definitions  *)
(* called under the same call text are not flagged as recursion of each    *)
(* other.                                                                  *)
(***************************************************************************)
C29_RecursiveOnlySameDefinition ==
  Returned =>
    \A x \in Nodes(result) :
      x.node.isRecursive =>
        \E y \in Nodes(result) :
          Above(y, x) /\ DefsAt(y.node) \cap DefsAt(x.node) # {}

(***************************************************************************)
(* C30: the depth limit of the traversal is the supplied maxDepth whenever *)
(* an integer is supplied, and 10 only when none is supplied; with a       *)
(* supplied maxDepth of 0 the returned tree is the root alone.             *)
(***************************************************************************)
C30_DepthLimitIsSupplied ==
  Constructed =>
    /\ options.maxDepth.kind = "num" => maxDepth = options.maxDepth.value
    /\ options.maxDepth.kind = "undefined" => maxDepth = DefaultMaxDepth
    /\ (Returned /\ options.maxDepth = Num(0)) => result.children = <<>>

====
